---- MODULE Spec2Model ----
(***************************************************************************)
(* Vote aggregation of senkyo-yotei.                                       *)
(*                                                                         *)
(* votes/{uid}            one VoteState document per user, written by the  *)
(*                        client mutators submitVote, cancelVote and       *)
(*                        toggleDislike, each a Firestore transaction.     *)
(* electionResults/{id}   one Result document per election, rewritten by   *)
(*                        the Cloud Function aggregateVotes, which is      *)
(*                        triggered by every write of a votes document and *)
(*                        receives its before- and after-image.            *)
(*                                                                         *)
(* A transaction is two steps: the read of the document (the body runs on  *)
(* that snapshot) and the commit, which succeeds only when the document    *)
(* was not written since the read and otherwise runs the body again.       *)
(* Trigger events are delivered at least once and in no particular order.  *)
(*                                                                         *)
(* Absent values: an absent candidateId is None, an absent                 *)
(* dislikedCandidates array is the empty sequence, percentages are kept in *)
(* tenths of a percent (33.3 is 333).                                      *)
(*                                                                         *)
(* The client's Firestore instance is getFirestore(app) without            *)
(* ignoreUndefinedProperties (firebase/config.ts), so tx.set throws on a   *)
(* field whose value is undefined and the transaction fails unwritten.     *)
(***************************************************************************)
EXTENDS Integers, Sequences, FiniteSets, TLC

Users == {"u1", "u2"}
Elections == {"e1"}
OtherElections == {"e2"}
AllElections == Elections \cup OtherElections
Candidates == {"A", "B", "C"}
InitialRoster == {"A", "B"}
None == "none"

\* Bounds of the model.
MaxCalls == 2
MaxRedeliver == 1
MaxOpenCalls == 2
MaxOpenInvocations == 2
MaxRosterFailures == 1
MaxProfileRuns == 1

VARIABLES
    votes,          \* votes/{uid}: [exists, elections]
    voteVersion,    \* update counter of votes/{uid}, what a commit compares
    result,         \* electionResults/{id}
    roster,         \* ids of elections/{id}/candidates
    clock,          \* the client's new Date()
    calls,          \* mutator calls whose transaction is open
    ncalls,         \* mutator calls started so far
    events,         \* trigger events of votes/{uid}: before- and after-image
    delivered,      \* deliveries of each event so far
    invs,           \* open aggregateVotes invocations
    rosterFailures, \* failed roster reads so far
    lastWrite,      \* the last write of electionResults/{id}: by whom, from what
    done,           \* ended aggregateVotes invocations: what each wrote
    profiles,       \* createUserProfile invocations between get and set
    ui,             \* ElectionDetail page of each user: userVote, userDislikes
    ended,          \* the last mutator call a page handler awaited
    returned        \* what the last getElectionResults call returned

vars == <<votes, voteVersion, result, roster, clock, calls, ncalls, events,
          delivered, invs, rosterFailures, lastWrite, done, profiles, ui,
          ended, returned>>

\* The state of the pages and of createUserProfile.
pageVars == <<profiles, ui, ended, returned>>

----------------------------------------------------------------------------
\* JavaScript objects used as maps.

Put(m, k, v) == [x \in (DOMAIN m) \cup {k} |-> IF x = k THEN v ELSE m[x]]

Del(m, k) == [x \in (DOMAIN m) \ {k} |-> m[x]]

\* m[k] || 0
Get0(m, k) == IF k \in DOMAIN m THEN m[k] ELSE 0

\* The sum of the values of a map.
RECURSIVE SumOf(_)
SumOf(f) ==
    IF DOMAIN f = {} THEN 0
    ELSE LET x == CHOOSE y \in DOMAIN f : TRUE IN f[x] + SumOf(Del(f, x))

Includes(list, x) == \E i \in 1..Len(list) : list[i] = x

\* The keys of a set in a fixed order.
RECURSIVE KeysOf(_)
KeysOf(S) ==
    IF S = {} THEN <<>>
    ELSE LET k == CHOOSE x \in S : TRUE IN <<k>> \o KeysOf(S \ {k})

NoDoc == [exists |-> FALSE, elections |-> <<>>]

\* snap.exists() ? {...data.elections} : {}
ElectionsOf(snap) == IF snap.exists THEN snap.elections ELSE <<>>

----------------------------------------------------------------------------
\* The bodies of the mutators' transactions. Each yields the write it
\* buffers and whether it threw: [write, elections, error].

\* Faulty variant: submitVote that keeps the voted candidate among the
\* dislikes.
submitVoteBody_KeepDislikes(snap, electionId, candidateId, now) ==
    LET elections == ElectionsOf(snap)
        hasPrev == electionId \in DOMAIN elections
    IN  [write |-> TRUE, error |-> FALSE,
         elections |-> Put(elections, electionId,
            [candidateId |-> candidateId,
             createdAt |-> IF hasPrev THEN elections[electionId].createdAt
                           ELSE now,
             updatedAt |-> now,
             dislikedCandidates |->
                IF hasPrev THEN elections[electionId].dislikedCandidates
                ELSE <<>>])]

submitVoteBody(snap, electionId, candidateId, now) ==
    LET elections == ElectionsOf(snap)
        hasPrev == electionId \in DOMAIN elections
        prevDislikes ==
            IF hasPrev THEN elections[electionId].dislikedCandidates ELSE <<>>
        cleanedDislikes == SelectSeq(prevDislikes, LAMBDA id : id # candidateId)
    IN  [write |-> TRUE, error |-> FALSE,
         elections |-> Put(elections, electionId,
            [candidateId |-> candidateId,
             createdAt |-> IF hasPrev THEN elections[electionId].createdAt
                           ELSE now,
             updatedAt |-> now,
             dislikedCandidates |-> cleanedDislikes])]

\* Faulty variant: cancelVote deletes the entry with its dislikes.
cancelVoteBody_DropsDislikes(snap, electionId, now) ==
    IF ~snap.exists THEN [write |-> FALSE, error |-> FALSE, elections |-> <<>>]
    ELSE [write |-> TRUE, error |-> FALSE,
          elections |-> Del(snap.elections, electionId)]

cancelVoteBody(snap, electionId, now) ==
    IF ~snap.exists THEN [write |-> FALSE, error |-> FALSE, elections |-> <<>>]
    ELSE
    LET elections == snap.elections
    IN  IF electionId \in DOMAIN elections
        THEN LET disliked == elections[electionId].dislikedCandidates
             IN  IF Len(disliked) > 0
                 THEN [write |-> TRUE, error |-> FALSE,
                       elections |-> Put(elections, electionId,
                          [candidateId |-> None,
                           dislikedCandidates |-> disliked,
                           createdAt |-> elections[electionId].createdAt,
                           updatedAt |-> now])]
                 ELSE [write |-> TRUE, error |-> FALSE,
                       elections |-> Del(elections, electionId)]
        ELSE [write |-> TRUE, error |-> FALSE, elections |-> elections]

\* list.indexOf(x) >= 0 ? list.splice(idx, 1) : list.push(x)
RECURSIVE RemoveFirst(_, _)
RemoveFirst(list, x) ==
    IF list = <<>> THEN <<>>
    ELSE IF Head(list) = x THEN Tail(list)
    ELSE <<Head(list)>> \o RemoveFirst(Tail(list), x)

\* Faulty variant: the write of an entry without candidateId is accepted.
toggleDislikeBody_WritesUndefined(snap, electionId, candidateId, now) ==
    LET elections == ElectionsOf(snap)
        current ==
            IF electionId \in DOMAIN elections THEN elections[electionId]
            ELSE [candidateId |-> None, dislikedCandidates |-> <<>>,
                  createdAt |-> now, updatedAt |-> now]
        list == IF Includes(current.dislikedCandidates, candidateId)
                THEN RemoveFirst(current.dislikedCandidates, candidateId)
                ELSE Append(current.dislikedCandidates, candidateId)
    IN  IF current.candidateId = candidateId
        THEN [write |-> FALSE, error |-> FALSE, elections |-> <<>>]
        ELSE [write |-> TRUE, error |-> FALSE,
              elections |-> Put(elections, electionId,
                 [candidateId |-> current.candidateId,
                  dislikedCandidates |-> list,
                  createdAt |-> current.createdAt,
                  updatedAt |-> now])]

\* Faulty variant: the user's own pick is toggled like any candidate.
toggleDislikeBody_OwnPick(snap, electionId, candidateId, now) ==
    LET elections == ElectionsOf(snap)
        current ==
            IF electionId \in DOMAIN elections THEN elections[electionId]
            ELSE [candidateId |-> None, dislikedCandidates |-> <<>>,
                  createdAt |-> now, updatedAt |-> now]
        list == IF Includes(current.dislikedCandidates, candidateId)
                THEN RemoveFirst(current.dislikedCandidates, candidateId)
                ELSE Append(current.dislikedCandidates, candidateId)
    IN  IF current.candidateId = None
        THEN [write |-> FALSE, error |-> TRUE, elections |-> <<>>]
        ELSE [write |-> TRUE, error |-> FALSE,
              elections |-> Put(elections, electionId,
                 [candidateId |-> current.candidateId,
                  dislikedCandidates |-> list,
                  createdAt |-> current.createdAt,
                  updatedAt |-> now])]

toggleDislikeBody(snap, electionId, candidateId, now) ==
    LET elections == ElectionsOf(snap)
        current ==
            IF electionId \in DOMAIN elections THEN elections[electionId]
            ELSE [candidateId |-> None, dislikedCandidates |-> <<>>,
                  createdAt |-> now, updatedAt |-> now]
        list == IF Includes(current.dislikedCandidates, candidateId)
                THEN RemoveFirst(current.dislikedCandidates, candidateId)
                ELSE Append(current.dislikedCandidates, candidateId)
    IN  IF current.candidateId = candidateId
        THEN [write |-> FALSE, error |-> FALSE, elections |-> <<>>]
        \* candidateId: current.candidateId is undefined: tx.set throws
        ELSE IF current.candidateId = None
        THEN [write |-> FALSE, error |-> TRUE, elections |-> <<>>]
        ELSE [write |-> TRUE, error |-> FALSE,
              elections |-> Put(elections, electionId,
                 [candidateId |-> current.candidateId,
                  dislikedCandidates |-> list,
                  createdAt |-> current.createdAt,
                  updatedAt |-> now])]

Mutators == {"submitVote", "cancelVote", "toggleDislike"}

Body(op, snap, electionId, candidateId, now) ==
    CASE op = "submitVote" -> submitVoteBody(snap, electionId, candidateId, now)
      [] op = "cancelVote" -> cancelVoteBody(snap, electionId, now)
      [] op = "toggleDislike" ->
            toggleDislikeBody(snap, electionId, candidateId, now)

----------------------------------------------------------------------------
\* aggregateVotes: the elections a trigger event affects.

CandidateOf(elections, id) ==
    IF id \in DOMAIN elections THEN elections[id].candidateId ELSE None

DislikesOf(elections, id) ==
    IF id \in DOMAIN elections THEN elections[id].dislikedCandidates ELSE <<>>

Change(beforeElections, afterElections, id) ==
    [electionId |-> id,
     beforeCandidate |-> CandidateOf(beforeElections, id),
     afterCandidate |-> CandidateOf(afterElections, id),
     beforeDislikes |-> DislikesOf(beforeElections, id),
     afterDislikes |-> DislikesOf(afterElections, id)]

\* Faulty variant: only a changed candidateId makes an election affected.
IsAffected_VoteOnly(change) ==
    change.beforeCandidate # change.afterCandidate

IsAffected(change) ==
    LET voteChanged == change.beforeCandidate # change.afterCandidate
        dislikeChanged ==
            \/ Len(change.beforeDislikes) # Len(change.afterDislikes)
            \/ \E i \in 1..Len(change.beforeDislikes) :
                  ~Includes(change.afterDislikes, change.beforeDislikes[i])
            \/ \E i \in 1..Len(change.afterDislikes) :
                  ~Includes(change.beforeDislikes, change.afterDislikes[i])
    IN  voteChanged \/ dislikeChanged

Affected(beforeVotes, afterVotes) ==
    LET beforeElections == ElectionsOf(beforeVotes)
        afterElections == ElectionsOf(afterVotes)
        electionIds ==
            KeysOf(DOMAIN beforeElections)
                \o KeysOf((DOMAIN afterElections) \ (DOMAIN beforeElections))
        changes == [i \in 1..Len(electionIds) |->
                       Change(beforeElections, afterElections, electionIds[i])]
    IN  SelectSeq(changes, IsAffected)

----------------------------------------------------------------------------
\* aggregateVotes: the body of the transaction of one affected election.

NoResult ==
    [exists |-> FALSE, totalVotes |-> 0, totalDislikeMarks |-> 0,
     candidates |-> <<>>, lastUpdated |-> 0]

\* Math.round((n / d) * 1000), for n >= 0 and d > 0
RoundPermille(n, d) == (2000 * n + d) \div (2 * d)

candidatesCounts(data) ==
    [cid \in DOMAIN data.candidates |-> data.candidates[cid].count]

candidateDislikeCounts(data) ==
    [cid \in DOMAIN data.candidates |->
        IF "dislikeCount" \in DOMAIN data.candidates[cid]
        THEN data.candidates[cid].dislikeCount ELSE 0]

\* Faulty variant: a change of candidate counts as one more vote.
VoteDelta_AddsOnChange(counts, totalVotes, beforeCandidate, afterCandidate) ==
    LET moved == beforeCandidate # None /\ beforeCandidate # afterCandidate
        c1 == IF moved /\ Get0(counts, beforeCandidate) # 0
              THEN IF counts[beforeCandidate] - 1 <= 0
                   THEN Del(counts, beforeCandidate)
                   ELSE Put(counts, beforeCandidate, counts[beforeCandidate] - 1)
              ELSE counts
        t1 == IF moved /\ afterCandidate = None
              THEN totalVotes - 1 ELSE totalVotes
        t2 == IF afterCandidate # None /\ beforeCandidate # afterCandidate
              THEN t1 + 1 ELSE t1
        c2 == IF afterCandidate # None /\ beforeCandidate # afterCandidate
              THEN Put(c1, afterCandidate, Get0(c1, afterCandidate) + 1)
              ELSE c1
    IN  [counts |-> c2, total |-> t2]

\* lines 81-101: the counts and the total after the vote delta
VoteDelta(counts, totalVotes, beforeCandidate, afterCandidate) ==
    LET moved == beforeCandidate # None /\ beforeCandidate # afterCandidate
        c1 == IF moved /\ Get0(counts, beforeCandidate) # 0
              THEN IF counts[beforeCandidate] - 1 <= 0
                   THEN Del(counts, beforeCandidate)
                   ELSE Put(counts, beforeCandidate, counts[beforeCandidate] - 1)
              ELSE counts
        t1 == IF moved /\ afterCandidate = None
              THEN totalVotes - 1 ELSE totalVotes
        t2 == IF beforeCandidate = None /\ afterCandidate # None
              THEN t1 + 1 ELSE t1
        c2 == IF afterCandidate # None /\ beforeCandidate # afterCandidate
              THEN Put(c1, afterCandidate, Get0(c1, afterCandidate) + 1)
              ELSE c1
    IN  [counts |-> c2, total |-> t2]

\* lines 107-110
RECURSIVE AddDislikes(_, _)
AddDislikes(st, added) ==
    IF added = <<>> THEN st
    ELSE LET cid == Head(added)
         IN  AddDislikes([counts |-> Put(st.counts, cid, Get0(st.counts, cid) + 1),
                          total |-> st.total + 1], Tail(added))

\* Faulty variant: the removal decrements the count without the total.
RECURSIVE RemoveDislikes_KeepTotal(_, _)
RemoveDislikes_KeepTotal(st, removed) ==
    IF removed = <<>> THEN st
    ELSE LET cid == Head(removed)
             next ==
                 IF Get0(st.counts, cid) # 0
                 THEN [counts |-> IF st.counts[cid] - 1 <= 0
                                  THEN Del(st.counts, cid)
                                  ELSE Put(st.counts, cid, st.counts[cid] - 1),
                       total |-> st.total]
                 ELSE st
         IN  RemoveDislikes_KeepTotal(next, Tail(removed))

\* lines 112-118
RECURSIVE RemoveDislikes(_, _)
RemoveDislikes(st, removed) ==
    IF removed = <<>> THEN st
    ELSE LET cid == Head(removed)
             next ==
                 IF Get0(st.counts, cid) # 0
                 THEN [counts |-> IF st.counts[cid] - 1 <= 0
                                  THEN Del(st.counts, cid)
                                  ELSE Put(st.counts, cid, st.counts[cid] - 1),
                       total |-> st.total - 1]
                 ELSE st
         IN  RemoveDislikes(next, Tail(removed))

DislikeDelta(counts, totalDislikeMarks, beforeDislikes, afterDislikes) ==
    LET removedDislikes ==
            SelectSeq(beforeDislikes, LAMBDA d : ~Includes(afterDislikes, d))
        addedDislikes ==
            SelectSeq(afterDislikes, LAMBDA d : ~Includes(beforeDislikes, d))
    IN  RemoveDislikes(
            AddDislikes([counts |-> counts, total |-> totalDislikeMarks],
                        addedDislikes),
            removedDislikes)

\* Faulty variant: no floor at 0.
Clamp_None(n) == n

Clamp(n) == IF n < 0 THEN 0 ELSE n

\* Faulty variant: no zero-fill from the roster.
allCandidateIds_NoRoster(counts, dislikeCounts, rosterOK, rosterIds) ==
    (DOMAIN counts) \cup (DOMAIN dislikeCounts)

\* Faulty variant: after a failed roster read only the candidates with a
\* vote count are written.
allCandidateIds_DegradedVotesOnly(counts, dislikeCounts, rosterOK, rosterIds) ==
    IF rosterOK
    THEN (DOMAIN counts) \cup (DOMAIN dislikeCounts) \cup rosterIds
    ELSE DOMAIN counts

\* lines 125-138: the ids of the written record
allCandidateIds(counts, dislikeCounts, rosterOK, rosterIds) ==
    (DOMAIN counts) \cup (DOMAIN dislikeCounts)
        \cup (IF rosterOK THEN rosterIds ELSE {})

\* lines 141-152
CandidateEntry(count, dislikeCount, totalVotes, totalDislikeMarks) ==
    LET percentage ==
            IF totalVotes > 0 THEN RoundPermille(count, totalVotes) ELSE 0
    IN  IF dislikeCount > 0
        THEN [count |-> count, percentage |-> percentage,
              dislikeCount |-> dislikeCount,
              dislikePercentage |->
                  IF totalDislikeMarks > 0
                  THEN RoundPermille(dislikeCount, totalDislikeMarks) ELSE 0]
        ELSE [count |-> count, percentage |-> percentage]

\* Faulty variant: the percentages are computed from the totals read.
Aggregate_StaleTotals(data, change, rosterOK, rosterIds) ==
    LET vote == VoteDelta(candidatesCounts(data), data.totalVotes,
                          change.beforeCandidate, change.afterCandidate)
        dislike == DislikeDelta(candidateDislikeCounts(data),
                                data.totalDislikeMarks,
                                change.beforeDislikes, change.afterDislikes)
        ids == allCandidateIds(vote.counts, dislike.counts, rosterOK, rosterIds)
    IN  [exists |-> TRUE,
         totalVotes |-> Clamp(vote.total),
         totalDislikeMarks |-> Clamp(dislike.total),
         candidates |->
            [cid \in ids |->
                CandidateEntry(Get0(vote.counts, cid), Get0(dislike.counts, cid),
                               data.totalVotes, data.totalDislikeMarks)],
         lastUpdated |-> data.lastUpdated + 1]

\* lines 62-161: the record tx.set writes, from the record tx.get read
Aggregate(data, change, rosterOK, rosterIds) ==
    LET vote == VoteDelta(candidatesCounts(data), data.totalVotes,
                          change.beforeCandidate, change.afterCandidate)
        dislike == DislikeDelta(candidateDislikeCounts(data),
                                data.totalDislikeMarks,
                                change.beforeDislikes, change.afterDislikes)
        totalVotes == Clamp(vote.total)
        totalDislikeMarks == Clamp(dislike.total)
        ids == allCandidateIds(vote.counts, dislike.counts, rosterOK, rosterIds)
    IN  [exists |-> TRUE,
         totalVotes |-> totalVotes,
         totalDislikeMarks |-> totalDislikeMarks,
         candidates |->
            [cid \in ids |->
                CandidateEntry(Get0(vote.counts, cid), Get0(dislike.counts, cid),
                               totalVotes, totalDislikeMarks)],
         lastUpdated |-> data.lastUpdated + 1]

----------------------------------------------------------------------------
\* The client: runTransaction of a mutator. The call reads votes/{uid} and
\* runs its body; the commit follows as a step of its own. handler tells
\* whether a handler of the ElectionDetail page awaits the call.

StartCall(op, uid, electionId, candidateId, handler) ==
    /\ ncalls < MaxCalls
    /\ Cardinality(calls) < MaxOpenCalls
    /\ ncalls' = ncalls + 1
    /\ clock' = clock + 1
    /\ calls' = calls \cup
          {[id |-> ncalls + 1, op |-> op, uid |-> uid,
            electionId |-> electionId, candidateId |-> candidateId,
            handler |-> handler, now |-> clock, retried |-> FALSE,
            version |-> voteVersion[uid],
            body |-> Body(op, votes[uid], electionId, candidateId, clock)]}
    /\ UNCHANGED <<votes, voteVersion, result, roster, events, delivered,
                   invs, rosterFailures, lastWrite, done>>
    /\ UNCHANGED pageVars

OpenCall(op, uid, electionId, candidateId) ==
    StartCall(op, uid, electionId, candidateId, FALSE)

submitVote(uid, electionId, candidateId) ==
    /\ candidateId \in roster[electionId]
    /\ OpenCall("submitVote", uid, electionId, candidateId)

cancelVote(uid, electionId) ==
    OpenCall("cancelVote", uid, electionId, None)

toggleDislike(uid, electionId, candidateId) ==
    /\ candidateId \in roster[electionId]
    /\ OpenCall("toggleDislike", uid, electionId, candidateId)

\* Faulty variant: the mutator catches the error and returns normally.
Outcome_Swallowed(body, txFailed) == "ok"

\* The mutators await runTransaction outside any try: what their caller
\* sees when the transaction failed or its body threw.
Outcome(body, txFailed) == IF txFailed \/ body.error THEN "error" ELSE "ok"

\* ElectionDetail.tsx 84-92: the page's state after getUserVotes
FromStored(stored, electionId) ==
    [userVote |-> CandidateOf(ElectionsOf(stored), electionId),
     userDislikes |-> DislikesOf(ElectionsOf(stored), electionId)]

\* prev.includes(c) ? prev.filter(id => id !== c) : [...prev, c]
ToggleLocal(prev, c) ==
    IF Includes(prev, c) THEN SelectSeq(prev, LAMBDA id : id # c)
    ELSE Append(prev, c)

\* ElectionDetail.tsx 329-340, 346-357, 365-372: what a handler does to the
\* page's state once the awaited mutator has returned or thrown. After a
\* successful vote or cancellation refreshData reloads the stored entry.
AfterHandler(local, call, status, stored) ==
    CASE call.op = "submitVote" ->
            IF status = "ok" THEN FromStored(stored, call.electionId)
            ELSE [local EXCEPT !.userVote = call.candidateId]
      [] call.op = "cancelVote" ->
            IF status = "ok" THEN FromStored(stored, call.electionId)
            ELSE [local EXCEPT !.userVote = None]
      [] call.op = "toggleDislike" ->
            [local EXCEPT !.userDislikes = ToggleLocal(@, call.candidateId)]

NoCall ==
    [id |-> 0, uid |-> None, op |-> None, candidateId |-> None,
     failed |-> FALSE, status |-> None, storedBefore |-> NoDoc,
     storedAfter |-> NoDoc,
     shownBefore |-> [userVote |-> None, userDislikes |-> <<>>],
     shownAfter |-> [userVote |-> None, userDislikes |-> <<>>]]

\* The call ends: stored is votes/{uid} after the step.
EndCall(call, txFailed, stored) ==
    IF call.handler
    THEN LET status == Outcome(call.body, txFailed)
             shown == AfterHandler(ui[call.uid], call, status, stored)
         IN  /\ ui' = [ui EXCEPT ![call.uid] = shown]
             /\ ended' = [id |-> call.id, uid |-> call.uid, op |-> call.op,
                          candidateId |-> call.candidateId,
                          failed |-> txFailed \/ call.body.error,
                          status |-> status,
                          storedBefore |-> votes[call.uid],
                          storedAfter |-> stored,
                          shownBefore |-> ui[call.uid],
                          shownAfter |-> shown]
    ELSE UNCHANGED <<ui, ended>>

\* The body returned without tx.set, or tx.set threw: nothing is written,
\* no trigger fires.
CommitNoWrite(call) ==
    /\ ~call.body.write
    /\ calls' = calls \ {call}
    /\ EndCall(call, FALSE, votes[call.uid])
    /\ UNCHANGED <<votes, voteVersion, result, roster, clock, ncalls, events,
                   delivered, invs, rosterFailures, lastWrite, done, profiles,
                   returned>>

\* Faulty variant: the commit does not check that votes/{uid} is the
\* document the body read.
CommitWrite_Blind(call) ==
    /\ call.body.write
    /\ LET after == [exists |-> TRUE, elections |-> call.body.elections]
       IN  /\ votes' = [votes EXCEPT ![call.uid] = after]
           /\ events' = Append(events,
                 [uid |-> call.uid, before |-> votes[call.uid], after |-> after,
                  call |-> [op |-> call.op, electionId |-> call.electionId,
                            candidateId |-> call.candidateId,
                            now |-> call.now, retried |-> call.retried]])
           /\ EndCall(call, FALSE, after)
    /\ voteVersion' = [voteVersion EXCEPT ![call.uid] = @ + 1]
    /\ delivered' = Append(delivered, 0)
    /\ calls' = calls \ {call}
    /\ UNCHANGED <<result, roster, clock, ncalls, invs,
                   rosterFailures, lastWrite, done, profiles, returned>>

\* tx.set(voteRef, { elections }) commits and the write fires the trigger.
CommitWrite(call) ==
    /\ call.body.write
    /\ voteVersion[call.uid] = call.version
    /\ LET after == [exists |-> TRUE, elections |-> call.body.elections]
       IN  /\ votes' = [votes EXCEPT ![call.uid] = after]
           /\ events' = Append(events,
                 [uid |-> call.uid, before |-> votes[call.uid], after |-> after,
                  call |-> [op |-> call.op, electionId |-> call.electionId,
                            candidateId |-> call.candidateId,
                            now |-> call.now, retried |-> call.retried]])
           /\ EndCall(call, FALSE, after)
    /\ voteVersion' = [voteVersion EXCEPT ![call.uid] = @ + 1]
    /\ delivered' = Append(delivered, 0)
    /\ calls' = calls \ {call}
    /\ UNCHANGED <<result, roster, clock, ncalls, invs,
                   rosterFailures, lastWrite, done, profiles, returned>>

\* votes/{uid} was written since the read: the body runs again.
CommitConflict(call) ==
    /\ call.body.write
    /\ voteVersion[call.uid] # call.version
    /\ clock' = clock + 1
    /\ calls' = (calls \ {call}) \cup
          {[call EXCEPT
              !.version = voteVersion[call.uid],
              !.now = clock,
              !.retried = TRUE,
              !.body = Body(call.op, votes[call.uid], call.electionId,
                            call.candidateId, clock)]}
    /\ UNCHANGED <<votes, voteVersion, result, roster, ncalls, events,
                   delivered, invs, rosterFailures, lastWrite, done>>
    /\ UNCHANGED pageVars

\* candidateService.createCandidate
createCandidate(electionId, candidateId) ==
    /\ candidateId \notin roster[electionId]
    /\ roster' = [roster EXCEPT ![electionId] = @ \cup {candidateId}]
    /\ UNCHANGED <<votes, voteVersion, result, clock, calls, ncalls, events,
                   delivered, invs, rosterFailures, lastWrite, done>>
    /\ UNCHANGED pageVars

----------------------------------------------------------------------------
\* The Cloud Function aggregateVotes.

RECURSIVE SumSeq(_)
SumSeq(q) == IF q = <<>> THEN 0 ELSE Head(q) + SumSeq(Tail(q))

Redeliveries ==
    SumSeq([k \in 1..Len(delivered) |->
               IF delivered[k] > 1 THEN delivered[k] - 1 ELSE 0])

NoChange ==
    [electionId |-> None, beforeCandidate |-> None, afterCandidate |-> None,
     beforeDislikes |-> <<>>, afterDislikes |-> <<>>]

NoWrite ==
    [by |-> None, data |-> NoResult, change |-> NoChange, rosterOK |-> FALSE,
     rosterIds |-> {}, n |-> 0, retried |-> FALSE]

\* The outcomes of the read of the candidates collection: it may throw.
RosterReads == IF rosterFailures < MaxRosterFailures THEN {TRUE, FALSE} ELSE {TRUE}

\* tx.get(ref) and the read of the candidates collection, which the
\* transaction's body awaits before tx.set.
Read(inv, rosterOK) ==
    [inv EXCEPT !.data = result[inv.affected[inv.idx].electionId],
                !.rosterOK = rosterOK,
                !.rosterIds = IF rosterOK
                              THEN roster[inv.affected[inv.idx].electionId]
                              ELSE {}]

\* The handler returns: what the invocation wrote and where it failed.
Returned(inv) ==
    [ev |-> inv.ev, n |-> inv.n, written |-> inv.written,
     failed |-> inv.failed]

\* The trigger delivers event k: lines 12-56, and, when an election is
\* affected, the reads of the first transaction.
aggregateVotes(k) ==
    /\ k \in 1..Len(events)
    /\ delivered[k] = 0 \/ Redeliveries < MaxRedeliver
    /\ Cardinality(invs) < MaxOpenInvocations
    /\ delivered' = [delivered EXCEPT ![k] = @ + 1]
    /\ LET affected == Affected(events[k].before, events[k].after)
           inv == [ev |-> k, n |-> delivered[k] + 1, affected |-> affected,
                   idx |-> 1, retried |-> FALSE, data |-> NoResult,
                   rosterOK |-> TRUE, rosterIds |-> {},
                   written |-> {}, failed |-> {}]
       IN  IF Len(affected) = 0
           THEN /\ done' = done \cup {Returned(inv)}
                /\ UNCHANGED <<invs, rosterFailures>>
           ELSE \E rosterOK \in RosterReads :
                   /\ invs' = invs \cup {Read(inv, rosterOK)}
                   /\ rosterFailures' =
                         rosterFailures + (IF rosterOK THEN 0 ELSE 1)
                   /\ UNCHANGED done
    /\ UNCHANGED <<votes, voteVersion, result, roster, clock, calls, ncalls,
                   events, lastWrite>>
    /\ UNCHANGED pageVars

ElectionOf(inv) == inv.affected[inv.idx].electionId

\* Faulty variant: the commit does not check the record it read.
Unchanged_Always(inv) == TRUE

\* The record read is still the stored one.
Unchanged(inv) ==
    result[ElectionOf(inv)].lastUpdated = inv.data.lastUpdated

\* Lines 58-167: the for loop goes on to the next affected election, or the
\* handler returns after the last one. next is the invocation after the
\* transaction of the current election.
Continue(inv, next) ==
    IF inv.idx = Len(inv.affected)
    THEN /\ invs' = invs \ {inv}
         /\ done' = done \cup {Returned(next)}
         /\ UNCHANGED rosterFailures
    ELSE \E rosterOK \in RosterReads :
            /\ invs' = (invs \ {inv}) \cup
                  {Read([next EXCEPT !.idx = @ + 1, !.retried = FALSE],
                        rosterOK)}
            /\ rosterFailures' = rosterFailures + (IF rosterOK THEN 0 ELSE 1)
            /\ UNCHANGED done

\* tx.set(ref, ...) commits; the loop goes on to the next affected election.
TxCommit(inv) ==
    /\ Unchanged(inv)
    /\ result' = [result EXCEPT ![ElectionOf(inv)] =
          Aggregate(inv.data, inv.affected[inv.idx], inv.rosterOK,
                    inv.rosterIds)]
    /\ lastWrite' = [lastWrite EXCEPT ![ElectionOf(inv)] =
          [by |-> "aggregateVotes", data |-> inv.data,
           change |-> inv.affected[inv.idx], rosterOK |-> inv.rosterOK,
           rosterIds |-> inv.rosterIds, n |-> inv.n,
           retried |-> inv.retried]]
    /\ Continue(inv, [inv EXCEPT !.written = @ \cup {ElectionOf(inv)}])
    /\ UNCHANGED <<votes, voteVersion, roster, clock, calls, ncalls, events,
                   delivered>>
    /\ UNCHANGED pageVars

\* The record was written since tx.get: the transaction's body runs again.
TxConflict(inv) ==
    /\ ~Unchanged(inv)
    /\ \E rosterOK \in RosterReads :
          /\ invs' = (invs \ {inv}) \cup
                {Read([inv EXCEPT !.retried = TRUE], rosterOK)}
          /\ rosterFailures' = rosterFailures + (IF rosterOK THEN 0 ELSE 1)
    /\ UNCHANGED <<votes, voteVersion, result, roster, clock, calls, ncalls,
                   events, delivered, lastWrite, done>>
    /\ UNCHANGED pageVars

\* Faulty variant: a rejected transaction ends the handler.
TxFail_Abort(inv) ==
    /\ invs' = invs \ {inv}
    /\ done' = done \cup
          {Returned([inv EXCEPT !.failed = @ \cup {ElectionOf(inv)}])}
    /\ UNCHANGED <<votes, voteVersion, result, roster, clock, calls, ncalls,
                   events, delivered, rosterFailures, lastWrite>>
    /\ UNCHANGED pageVars

\* db.runTransaction rejects (the store is unavailable, or the retries are
\* used up): nothing is written, the catch of lines 164-166 logs, and the
\* loop goes on to the next affected election.
TxFail(inv) ==
    /\ Continue(inv, [inv EXCEPT !.failed = @ \cup {ElectionOf(inv)}])
    /\ UNCHANGED <<votes, voteVersion, result, roster, clock, calls, ncalls,
                   events, delivered, lastWrite>>
    /\ UNCHANGED pageVars

----------------------------------------------------------------------------
\* The system starts either new (no votes document, no Result record) or in
\* use: user u1 has voted for A (at time 1) and then marked B as disliked
\* (at time 2) in election e1, and aggregateVotes has processed the two
\* writes in order, once each, with the roster read.
VotedDoc ==
    [exists |-> TRUE,
     elections |-> submitVoteBody(NoDoc, "e1", "A", 1).elections]

MarkedDoc ==
    [exists |-> TRUE,
     elections |-> toggleDislikeBody(VotedDoc, "e1", "B", 2).elections]

VotedResult ==
    Aggregate(NoResult, Affected(NoDoc, VotedDoc)[1], TRUE, InitialRoster)

MarkedResult ==
    Aggregate(VotedResult, Affected(VotedDoc, MarkedDoc)[1], TRUE,
              InitialRoster)

InitNew ==
    /\ votes = [u \in Users |-> NoDoc]
    /\ voteVersion = [u \in Users |-> 0]
    /\ result = [e \in AllElections |-> NoResult]
    /\ clock = 1
    /\ lastWrite = [e \in AllElections |-> NoWrite]

InitInUse ==
    /\ votes = [u \in Users |-> IF u = "u1" THEN MarkedDoc ELSE NoDoc]
    /\ voteVersion = [u \in Users |-> IF u = "u1" THEN 2 ELSE 0]
    /\ result = [e \in AllElections |->
          IF e = "e1" THEN MarkedResult ELSE NoResult]
    /\ clock = 3
    /\ lastWrite = [e \in AllElections |->
          IF e = "e1"
          THEN [by |-> "aggregateVotes", data |-> VotedResult,
                change |-> Affected(VotedDoc, MarkedDoc)[1], rosterOK |-> TRUE,
                rosterIds |-> InitialRoster, n |-> 1, retried |-> FALSE]
          ELSE NoWrite]

\* No call is open and no trigger event is pending.
InitIdle ==
    /\ roster = [e \in AllElections |-> InitialRoster]
    /\ calls = {}
    /\ ncalls = 0
    /\ events = <<>>
    /\ delivered = <<>>
    /\ invs = {}
    /\ rosterFailures = 0
    /\ done = {}
    /\ profiles = [open |-> {}, runs |-> 0]
    /\ ui = [u \in Users |-> FromStored(votes[u], "e1")]
    /\ ended = NoCall
    /\ returned = [n |-> 0, value |-> NoResult]

Init == (InitNew \/ InitInUse) /\ InitIdle

Next ==
    \/ \E u \in Users, e \in Elections, c \in Candidates : submitVote(u, e, c)
    \/ \E u \in Users, e \in Elections : cancelVote(u, e)
    \/ \E u \in Users, e \in Elections, c \in Candidates : toggleDislike(u, e, c)
    \/ \E call \in calls : CommitNoWrite(call)
    \/ \E call \in calls : CommitWrite(call)
    \/ \E call \in calls : CommitConflict(call)
    \/ \E e \in Elections, c \in Candidates : createCandidate(e, c)
    \/ \E k \in 1..Len(events) : aggregateVotes(k)
    \/ \E inv \in invs : TxCommit(inv)
    \/ \E inv \in invs : TxConflict(inv)

Spec == Init /\ [][Next]_vars

\* Scheduling: the platform delivers every write of votes/{userId} to the
\* trigger at least once, a started transaction of the handler ends (it
\* commits or is run again), and a started client transaction ends. Users are
\* free to stop issuing calls at any time.
FirstDelivery ==
    \E k \in 1..Len(events) : delivered[k] = 0 /\ aggregateVotes(k)

HandlerStep == \E inv \in invs : TxCommit(inv) \/ TxConflict(inv)

ClientStep ==
    \E call \in calls :
        CommitNoWrite(call) \/ CommitWrite(call) \/ CommitConflict(call)

SpecLive ==
    /\ Spec
    /\ WF_vars(FirstDelivery)
    /\ WF_vars(HandlerStep)
    /\ WF_vars(ClientStep)

\* The system with transactions of aggregateVotes that may be rejected.
NextRecovery ==
    \/ Next
    \/ \E inv \in invs : TxFail(inv)

SpecRecovery == Init /\ [][NextRecovery]_vars

----------------------------------------------------------------------------
\* The handler aggregateVotes on its own: one write of votes/u1 is delivered,
\* on Result records that earlier invocations wrote; a transaction of the
\* handler may be rejected.

MkDoc(elections) == [exists |-> TRUE, elections |-> elections]

\* The documents one more mutator call makes of the documents docs.
Written(docs) ==
    docs \cup
    {MkDoc(Body(x[1], x[2], x[3], x[4], 1).elections) :
        x \in {y \in Mutators \X docs \X AllElections \X Candidates :
                  Body(y[1], y[2], y[3], y[4], 1).write}}

HandlerDocs == Written(Written({NoDoc}))

\* A write of a mutator, or createUserProfile's write of { elections: {} }
\* over a document created since its read.
HandlerEvents ==
    {[uid |-> "u1", before |-> x[2],
      after |-> MkDoc(Body(x[1], x[2], x[3], x[4], 2).elections),
      call |-> [op |-> x[1], electionId |-> x[3], candidateId |-> x[4],
                now |-> 2, retried |-> FALSE]] :
        x \in {y \in Mutators \X HandlerDocs \X AllElections \X Candidates :
                  Body(y[1], y[2], y[3], y[4], 2).write}}
    \cup
    {[uid |-> "u1", before |-> d, after |-> MkDoc(<<>>),
      call |-> [op |-> "createUserProfile", electionId |-> None,
                candidateId |-> None, now |-> 2, retried |-> FALSE]] :
        d \in {y \in HandlerDocs : y.exists}}

\* The Result after one more vote for c / one more dislike mark on c.
Cast(data, c) ==
    Aggregate(data, [NoChange EXCEPT !.afterCandidate = c], TRUE,
              InitialRoster)

Mark(data, c) ==
    Aggregate(data, [NoChange EXCEPT !.afterDislikes = <<c>>], TRUE,
              InitialRoster)

HandlerResults ==
    {NoResult,
     Cast(NoResult, "C"),
     Cast(Cast(NoResult, "A"), "B"),
     Mark(Mark(Cast(Cast(NoResult, "A"), "A"), "A"), "B")}

InitHandler ==
    /\ \E ev \in HandlerEvents :
          /\ events = <<ev>>
          /\ votes = [u \in Users |-> IF u = ev.uid THEN ev.after ELSE NoDoc]
    /\ delivered = <<0>>
    /\ voteVersion = [u \in Users |-> 0]
    /\ result \in [AllElections -> HandlerResults]
    /\ lastWrite = [e \in AllElections |-> NoWrite]
    /\ clock = 3
    /\ roster = [e \in AllElections |-> InitialRoster]
    /\ calls = {}
    /\ ncalls = 0
    /\ invs = {}
    /\ rosterFailures = 0
    /\ done = {}
    /\ profiles = [open |-> {}, runs |-> 0]
    /\ ui = [u \in Users |-> FromStored(votes[u], "e1")]
    /\ ended = NoCall
    /\ returned = [n |-> 0, value |-> NoResult]

NextHandler ==
    \/ \E k \in 1..Len(events) : aggregateVotes(k)
    \/ \E inv \in invs : TxCommit(inv)
    \/ \E inv \in invs : TxConflict(inv)
    \/ \E inv \in invs : TxFail(inv)

SpecHandler == InitHandler /\ [][NextHandler]_vars

----------------------------------------------------------------------------
\* The client of revision frontend/src/firebase/services.ts, which still
\* aggregates on the client: submitVote calls manualAggregateVotes, and
\* getElectionResults does when the stored record is absent or older than a
\* minute. Its transactions are taken as one step each.

services_submitVoteBody(snap, electionId, candidateId, now) ==
    LET elections == ElectionsOf(snap)
    IN  Put(elections, electionId,
           [candidateId |-> candidateId,
            createdAt |-> IF electionId \in DOMAIN elections
                          THEN elections[electionId].createdAt ELSE now,
            updatedAt |-> now,
            dislikedCandidates |-> <<>>])

\* What follows the client's transaction: a call of manualAggregateVotes
\* or of getElectionResults. userId is None when the caller passes none.
Pending(op, userId, electionId) ==
    [id |-> ncalls + 1, op |-> op, uid |-> userId, electionId |-> electionId,
     candidateId |-> None, version |-> 0,
     handler |-> FALSE, now |-> clock, retried |-> FALSE,
     body |-> [write |-> FALSE, error |-> FALSE, elections |-> <<>>]]

services_submitVote(uid, electionId, candidateId) ==
    /\ ncalls < MaxCalls
    /\ Cardinality(calls) < MaxOpenCalls
    /\ candidateId \in roster[electionId]
    /\ LET after ==
              [exists |-> TRUE,
               elections |-> services_submitVoteBody(votes[uid], electionId,
                                                     candidateId, clock)]
       IN  /\ votes' = [votes EXCEPT ![uid] = after]
           /\ events' = Append(events,
                 [uid |-> uid, before |-> votes[uid], after |-> after,
                  call |-> [op |-> "submitVote", electionId |-> electionId,
                            candidateId |-> candidateId, now |-> clock,
                            retried |-> FALSE]])
    /\ voteVersion' = [voteVersion EXCEPT ![uid] = @ + 1]
    /\ delivered' = Append(delivered, 0)
    /\ clock' = clock + 1
    /\ ncalls' = ncalls + 1
    /\ calls' = calls \cup {Pending("manualAggregateVotes", uid, electionId)}
    /\ UNCHANGED <<result, roster, invs, rosterFailures, lastWrite, done>>
    /\ UNCHANGED pageVars

services_cancelVote(uid, electionId) ==
    /\ ncalls < MaxCalls
    /\ Cardinality(calls) < MaxOpenCalls
    /\ IF votes[uid].exists
       THEN LET after == [exists |-> TRUE,
                          elections |-> Del(votes[uid].elections, electionId)]
            IN  /\ votes' = [votes EXCEPT ![uid] = after]
                /\ events' = Append(events,
                      [uid |-> uid, before |-> votes[uid], after |-> after,
                       call |-> [op |-> "cancelVote",
                                 electionId |-> electionId,
                                 candidateId |-> None, now |-> clock,
                                 retried |-> FALSE]])
                /\ voteVersion' = [voteVersion EXCEPT ![uid] = @ + 1]
                /\ delivered' = Append(delivered, 0)
       ELSE UNCHANGED <<votes, events, voteVersion, delivered>>
    /\ clock' = clock + 1
    /\ ncalls' = ncalls + 1
    /\ calls' = calls \cup {Pending("getElectionResults", None, electionId)}
    /\ UNCHANGED <<result, roster, invs, rosterFailures, lastWrite, done>>
    /\ UNCHANGED pageVars

\* The record manualAggregateVotes builds: one vote for the candidate of
\* userId, none for the others.
ManualResults(electionId, userId) ==
    LET userVotedCandidateId ==
            IF userId = None THEN None ELSE CandidateOf(ElectionsOf(votes[userId]), electionId)
        count(c) == IF c = userVotedCandidateId THEN 1 ELSE 0
        totalVotes == SumOf([c \in roster[electionId] |-> count(c)])
    IN  [exists |-> TRUE,
         totalVotes |-> totalVotes,
         totalDislikeMarks |-> 0,
         candidates |->
            [c \in roster[electionId] |->
                [count |-> count(c),
                 percentage |-> IF totalVotes > 0
                                THEN RoundPermille(count(c), totalVotes)
                                ELSE 0]],
         lastUpdated |-> result[electionId].lastUpdated + 1]

\* saveElectionResults: setDoc(resultRef, dataToSave)
saveElectionResults(electionId, results) ==
    /\ result' = [result EXCEPT ![electionId] = results]
    /\ lastWrite' = [lastWrite EXCEPT ![electionId] =
          [NoWrite EXCEPT !.by = "client", !.data = result[electionId]]]

manualAggregateVotes(call) ==
    /\ call.op = "manualAggregateVotes"
    /\ saveElectionResults(call.electionId,
                           ManualResults(call.electionId, call.uid))
    /\ calls' = calls \ {call}
    /\ UNCHANGED <<votes, voteVersion, roster, clock, ncalls, events,
                   delivered, invs, rosterFailures, done>>
    /\ UNCHANGED pageVars

\* getElectionResults finds a record written within the last minute.
services_getElectionResultsCached(call) ==
    /\ call.op = "getElectionResults"
    /\ result[call.electionId].exists
    /\ calls' = calls \ {call}
    /\ returned' = [n |-> returned.n + 1, value |-> result[call.electionId]]
    /\ UNCHANGED <<votes, voteVersion, result, roster, clock, ncalls, events,
                   delivered, invs, rosterFailures, lastWrite, done, profiles,
                   ui, ended>>

\* getElectionResults finds no record or an older one.
services_getElectionResultsStale(call) ==
    /\ call.op = "getElectionResults"
    /\ saveElectionResults(call.electionId,
                           ManualResults(call.electionId, None))
    /\ calls' = calls \ {call}
    /\ returned' = [n |-> returned.n + 1,
                    value |-> ManualResults(call.electionId, None)]
    /\ UNCHANGED <<votes, voteVersion, roster, clock, ncalls, events,
                   delivered, invs, rosterFailures, done, profiles, ui, ended>>

NextLegacy ==
    \/ \E u \in Users, e \in Elections, c \in Candidates :
          services_submitVote(u, e, c)
    \/ \E u \in Users, e \in Elections : services_cancelVote(u, e)
    \/ \E call \in calls : manualAggregateVotes(call)
    \/ \E call \in calls : services_getElectionResultsCached(call)
    \/ \E call \in calls : services_getElectionResultsStale(call)
    \/ \E k \in 1..Len(events) : aggregateVotes(k)
    \/ \E inv \in invs : TxCommit(inv)
    \/ \E inv \in invs : TxConflict(inv)

InitLegacy == InitNew /\ InitIdle

SpecLegacy == InitLegacy /\ [][NextLegacy]_vars

----------------------------------------------------------------------------
\* The Cloud Function createUserProfile, triggered by a write of
\* users/{userId}: votesRef.get() and, when the document is absent,
\* votesRef.set({elections: {}}), outside any transaction.


\* lines 175-187: the trigger fires and the function reads votes/{userId}
createUserProfile(uid) ==
    /\ profiles.runs < MaxProfileRuns
    /\ profiles' =
          [open |-> IF votes[uid].exists THEN profiles.open
                    ELSE profiles.open \cup
                            {[uid |-> uid, n |-> profiles.runs + 1]},
           runs |-> profiles.runs + 1]
    /\ UNCHANGED <<votes, voteVersion, result, roster, clock, calls, ncalls,
                   events, delivered, invs, rosterFailures, lastWrite, done,
                   ui, ended, returned>>

\* lines 188-190: the set, a write of votes/{userId} like any other
createUserProfileSet(p) ==
    /\ p \in profiles.open
    /\ profiles' = [profiles EXCEPT !.open = @ \ {p}]
    /\ LET after == [exists |-> TRUE, elections |-> <<>>]
       IN  /\ votes' = [votes EXCEPT ![p.uid] = after]
           /\ events' = Append(events,
                 [uid |-> p.uid, before |-> votes[p.uid], after |-> after,
                  call |-> [op |-> "createUserProfile", electionId |-> None,
                            candidateId |-> None, now |-> clock,
                            retried |-> FALSE]])
    /\ voteVersion' = [voteVersion EXCEPT ![p.uid] = @ + 1]
    /\ delivered' = Append(delivered, 0)
    /\ UNCHANGED <<result, roster, clock, calls, ncalls, invs, rosterFailures,
                   lastWrite, done, ui, ended, returned>>

\* The votes documents under the mutators and createUserProfile.
NextProfile ==
    \/ \E u \in Users, e \in Elections, c \in Candidates : submitVote(u, e, c)
    \/ \E u \in Users, e \in Elections : cancelVote(u, e)
    \/ \E u \in Users, e \in Elections, c \in Candidates : toggleDislike(u, e, c)
    \/ \E call \in calls : CommitNoWrite(call)
    \/ \E call \in calls : CommitWrite(call)
    \/ \E call \in calls : CommitConflict(call)
    \/ \E u \in Users : createUserProfile(u)
    \/ \E p \in profiles.open : createUserProfileSet(p)

SpecProfile == Init /\ [][NextProfile]_vars

----------------------------------------------------------------------------
\* The ElectionDetail page of election e1: its handlers call the mutators
\* and set the page's userVote and userDislikes when the call has ended.

\* ElectionDetail.tsx 323-341
handleVote(uid, electionId, candidateId) ==
    /\ candidateId \in roster[electionId]
    /\ StartCall("submitVote", uid, electionId, candidateId, TRUE)

\* ElectionDetail.tsx 343-358
handleCancelVote(uid, electionId) ==
    /\ ui[uid].userVote # None
    /\ StartCall("cancelVote", uid, electionId, None, TRUE)

\* ElectionDetail.tsx 360-373
ElectionDetail_toggleDislike(uid, electionId, candidateId) ==
    /\ candidateId \in roster[electionId]
    /\ StartCall("toggleDislike", uid, electionId, candidateId, TRUE)

\* runTransaction rejects: the retries are exhausted or the store fails.
\* Nothing is written.
CommitFail(call) ==
    /\ calls' = calls \ {call}
    /\ EndCall(call, TRUE, votes[call.uid])
    /\ UNCHANGED <<votes, voteVersion, result, roster, clock, ncalls, events,
                   delivered, invs, rosterFailures, lastWrite, done, profiles,
                   returned>>

NextClient ==
    \/ \E u \in Users, e \in Elections, c \in Candidates : handleVote(u, e, c)
    \/ \E u \in Users, e \in Elections : handleCancelVote(u, e)
    \/ \E u \in Users, e \in Elections, c \in Candidates :
          ElectionDetail_toggleDislike(u, e, c)
    \/ \E call \in calls : CommitNoWrite(call)
    \/ \E call \in calls : CommitWrite(call)
    \/ \E call \in calls : CommitConflict(call)
    \/ \E call \in calls : CommitFail(call)

SpecClient == Init /\ [][NextClient]_vars

----------------------------------------------------------------------------
\* The Result reader of the client (resultsService.getElectionResults).

getElectionResults(electionId) ==
    IF result[electionId].exists
    THEN [totalVotes |-> result[electionId].totalVotes,
          candidates |-> result[electionId].candidates]
    ELSE [totalVotes |-> 0, candidates |-> <<>>]

----------------------------------------------------------------------------
\* What the stored documents say.

Choice(u, e) == CandidateOf(ElectionsOf(votes[u]), e)

Marks(u, e) == DislikesOf(ElectionsOf(votes[u]), e)

Voters(e, c) == {u \in Users : Choice(u, e) = c}

Dislikers(e, c) == {u \in Users : Includes(Marks(u, e), c)}

CountOf(e, c) ==
    IF c \in DOMAIN result[e].candidates
    THEN result[e].candidates[c].count ELSE 0

DislikeCountOf(e, c) ==
    IF c \in DOMAIN result[e].candidates
       /\ "dislikeCount" \in DOMAIN result[e].candidates[c]
    THEN result[e].candidates[c].dislikeCount ELSE 0

\* No call is open, every event was delivered and its invocation has ended.
Quiescent ==
    /\ calls = {}
    /\ invs = {}
    /\ \A k \in 1..Len(events) : delivered[k] >= 1

ExactlyOnce == \A k \in 1..Len(events) : delivered[k] = 1

OneWritePerUser ==
    \A j, k \in 1..Len(events) : j # k => events[j].uid # events[k].uid

VotesTallied(e) ==
    /\ result[e].totalVotes = Cardinality({u \in Users : Choice(u, e) # None})
    /\ \A c \in Candidates : CountOf(e, c) = Cardinality(Voters(e, c))

DislikesTallied(e) ==
    /\ result[e].totalDislikeMarks =
          SumOf([c \in Candidates |-> Cardinality(Dislikers(e, c))])
    /\ \A c \in Candidates : DislikeCountOf(e, c) = Cardinality(Dislikers(e, c))

\* Event k of the log cancels a vote / removes a dislike mark in election e.
IsCancellation(k, e) ==
    /\ CandidateOf(ElectionsOf(events[k].before), e) # None
    /\ CandidateOf(ElectionsOf(events[k].after), e) = None

IsDislikeRemoval(k, e) ==
    \E c \in Candidates :
        /\ Includes(DislikesOf(ElectionsOf(events[k].before), e), c)
        /\ ~Includes(DislikesOf(ElectionsOf(events[k].after), e), c)

----------------------------------------------------------------------------
\* C1. Conservation: once every write's diff has been processed, totalVotes
\* is the number of users with a stored candidateId and each candidate's
\* count is the number of users whose stored candidateId is that candidate.
C1_Conservation == Quiescent => \A e \in Elections : VotesTallied(e)

\* C2. Mutual exclusion: the stored candidateId of a user, if present, is
\* never a member of the user's stored dislikedCandidates.
C2_MutualExclusion ==
    \A u \in Users, e \in Elections :
        Choice(u, e) # None => ~Includes(Marks(u, e), Choice(u, e))

\* A vote was stored for a candidate the same user had marked as disliked.
C2_Witness ==
    \E k \in 1..Len(events), e \in Elections :
        LET c == CandidateOf(ElectionsOf(events[k].after), e)
        IN  /\ c # None
            /\ Includes(DislikesOf(ElectionsOf(events[k].before), e), c)
            /\ Choice(events[k].uid, e) = c

\* C3. Idempotence under redelivery: a second delivery of the same event
\* yields zero affected elections, so it opens no transaction and the
\* record it would write has the totals and counts of the record it read.
C3_RedeliveryNoOp ==
    /\ \A inv \in invs : inv.n = 1
    /\ \A e \in Elections :
          lastWrite[e].n > 1 =>
             /\ result[e].totalVotes = lastWrite[e].data.totalVotes
             /\ result[e].totalDislikeMarks = lastWrite[e].data.totalDislikeMarks
             /\ candidatesCounts(result[e]) = candidatesCounts(lastWrite[e].data)

\* C4. No lost update between users: when every user wrote at most once and
\* every event was delivered once, the Result reflects every user's delta,
\* however the invocations were interleaved.
C4_NoLostUpdate ==
    (Quiescent /\ ExactlyOnce /\ OneWritePerUser) =>
        \A e \in Elections : VotesTallied(e) /\ DislikesTallied(e)

\* Two users' votes were aggregated, the later commit after a conflict.
C4_Witness ==
    /\ Quiescent /\ ExactlyOnce /\ OneWritePerUser
    /\ \E e \in Elections :
          /\ lastWrite[e].retried
          /\ result[e].totalVotes = 2
          /\ \A u \in Users : Choice(u, e) # None

\* C5. Non-negativity: totalVotes, totalDislikeMarks and every count and
\* dislikeCount of a Result record are >= 0, whatever the order and the
\* number of deliveries.
C5_NonNegative ==
    \A e \in Elections :
        /\ result[e].totalVotes >= 0
        /\ result[e].totalDislikeMarks >= 0
        /\ \A c \in DOMAIN result[e].candidates :
              /\ result[e].candidates[c].count >= 0
              /\ "dislikeCount" \in DOMAIN result[e].candidates[c] =>
                    result[e].candidates[c].dislikeCount >= 0

\* A cancellation was aggregated before the vote it cancels.
C5_Witness ==
    \E e \in Elections, j, k \in 1..Len(events) :
        /\ j < k
        /\ events[j].uid = events[k].uid
        /\ IsCancellation(k, e)
        /\ delivered[j] = 0
        /\ delivered[k] >= 1
        /\ invs = {}
        /\ result[e].exists
        /\ result[e].totalVotes = 0

\* C6. Vote-sum invariant: a written Result record has
\* totalVotes = the sum of count over its candidates.
C6_VoteSum ==
    \A e \in Elections :
        result[e].exists =>
            result[e].totalVotes =
                SumOf([c \in DOMAIN result[e].candidates |-> CountOf(e, c)])

\* C7. Dislike-sum invariant: a written Result record has
\* totalDislikeMarks = the sum of dislikeCount over its candidates, an
\* absent dislikeCount counted as 0.
C7_DislikeSum ==
    \A e \in Elections :
        result[e].exists =>
            result[e].totalDislikeMarks =
                SumOf([c \in DOMAIN result[e].candidates |->
                          DislikeCountOf(e, c)])

\* The removal of a dislike mark was aggregated, an event was delivered
\* twice, and dislike marks remain.
C7_Witness ==
    \E e \in Elections, k \in 1..Len(events) :
        /\ IsDislikeRemoval(k, e)
        /\ delivered[k] >= 1
        /\ Redeliveries >= 1
        /\ invs = {}
        /\ result[e].totalDislikeMarks >= 1

\* C8. Zero-fill inclusion: a Result record written after a successful
\* roster read has an entry for every candidate of the roster, with count 0
\* and percentage 0 for one the record did not know; and the record written
\* for the cancellation of the only counted vote exists with totalVotes 0,
\* count 0 for the cancelled candidate and the roster zero-filled.
C8_ZeroFill ==
    \A e \in Elections :
        lastWrite[e].by = "aggregateVotes" =>
            LET w == lastWrite[e]
                known == (DOMAIN w.data.candidates)
                            \cup {w.change.afterCandidate}
                            \cup {w.change.afterDislikes[i] :
                                    i \in 1..Len(w.change.afterDislikes)}
                onlyVoteCancelled ==
                    /\ w.change.beforeCandidate # None
                    /\ w.change.afterCandidate = None
                    /\ w.data.totalVotes = 1
                    /\ Get0(candidatesCounts(w.data), w.change.beforeCandidate) = 1
            IN  /\ w.rosterOK =>
                      /\ w.rosterIds \subseteq DOMAIN result[e].candidates
                      /\ \A c \in w.rosterIds \ known :
                            result[e].candidates[c] =
                                [count |-> 0, percentage |-> 0]
                /\ onlyVoteCancelled =>
                      /\ result[e].exists
                      /\ result[e].totalVotes = 0
                      /\ CountOf(e, w.change.beforeCandidate) = 0

\* The cancellation of the only counted vote was aggregated with the roster
\* read, and the candidate created in between was zero-filled.
C8_Witness ==
    \E e \in Elections :
        /\ lastWrite[e].by = "aggregateVotes"
        /\ lastWrite[e].rosterOK
        /\ lastWrite[e].change.beforeCandidate # None
        /\ lastWrite[e].change.afterCandidate = None
        /\ lastWrite[e].data.totalVotes = 1
        /\ lastWrite[e].rosterIds \ (DOMAIN lastWrite[e].data.candidates) # {}
        /\ result[e].totalVotes = 0
        /\ roster[e] \subseteq DOMAIN result[e].candidates

\* C9. Zero-fill completeness: for an election whose roster is {A,B,C} and
\* in which no user currently has a vote (nor a dislike mark), the
\* candidates map of the election's Result has exactly the keys A, B and C,
\* each with count 0 and percentage 0 and without a dislikeCount key.
C9_ZeroFillCompleteness ==
    \A e \in Elections :
        (/\ roster[e] = {"A", "B", "C"}
         /\ Quiescent
         /\ \A u \in Users : Choice(u, e) = None /\ Marks(u, e) = <<>>) =>
            LET r == getElectionResults(e)
            IN  /\ DOMAIN r.candidates = {"A", "B", "C"}
                /\ \A c \in DOMAIN r.candidates :
                      /\ DOMAIN r.candidates[c] = {"count", "percentage"}
                      /\ r.candidates[c].count = 0
                      /\ r.candidates[c].percentage = 0

\* C10. Result records are written by the Aggregation Engine only: no
\* operation of the client creates or overwrites a Result record.
C10_EngineOnlyWriter ==
    \A e \in Elections : lastWrite[e].by \in {None, "aggregateVotes"}

\* C11. VoteState single-writer: the elections map of a votes document
\* changes only by the owner's submitVote, cancelVote and toggleDislike;
\* createUserProfile never replaces a document that holds choices.
C11_SingleWriter ==
    \A k \in 1..Len(events) :
        \/ events[k].call.op \in Mutators
        \/ ElectionsOf(events[k].before) = ElectionsOf(events[k].after)

\* C12. When the transaction of a mutator fails, the stored VoteState is
\* the one before the call and the caller gets an error.
C12_FailureSurfaced ==
    ended.failed =>
        /\ ended.status = "error"
        /\ ended.storedAfter = ended.storedBefore

\* The transaction of a submitVote failed for a user whose document exists:
\* the caller got the error and the document is the one before the call.
C12_Witness ==
    /\ ended.failed
    /\ ended.op = "submitVote"
    /\ ended.status = "error"
    /\ ended.storedBefore.exists
    /\ votes[ended.uid] = ended.storedBefore

\* C13. When a mutator call of a page handler fails, the page's userVote
\* and userDislikes are not changed to the attempted value.
C13_FailureNotShown ==
    ended.failed => ended.shownAfter = ended.shownBefore

\* C14. No lost update within one user: the writes of a user's mutators
\* form one sequence in which each mutator was applied to the document the
\* previous one left, and the stored document is the outcome of the last.
C14_SameUserSerial ==
    \A k \in 1..Len(events) :
        LET ev == events[k]
            later == {j \in (k + 1)..Len(events) : events[j].uid = ev.uid}
            body == Body(ev.call.op, ev.before, ev.call.electionId,
                         ev.call.candidateId, ev.call.now)
        IN  /\ ev.call.op \in Mutators
            /\ body.write
            /\ ev.after.elections = body.elections
            /\ IF later = {} THEN votes[ev.uid] = ev.after
               ELSE \E j \in later :
                       /\ \A i \in later : j <= i
                       /\ events[j].before = ev.after

\* Two mutators of one user ran concurrently: the one that committed second
\* had read the document before the first one's write and ran again.
C14_Witness ==
    \E j, k \in 1..Len(events) :
        /\ j < k
        /\ events[j].uid = events[k].uid
        /\ events[k].call.retried
        /\ events[k].call.op # events[j].call.op
        /\ events[k].after # events[j].after

\* C15. Eventual convergence: when the users have stopped and every write's
\* invocation has run to completion, the Result of each election reaches,
\* and from then on keeps, the totals and the per-candidate counts of the
\* stored VoteStates.
C15_Convergence ==
    <>[](\A e \in Elections : VotesTallied(e) /\ DislikesTallied(e))

\* C16. Per-election independence: an invocation that has returned ran the
\* transaction of every election its event affects, whether or not one of
\* them was rejected, and an election whose transaction was rejected, and
\* which no other delivery of the event wrote, holds no write.
C16_Independence ==
    \A r \in done :
        LET affected == Affected(events[r.ev].before, events[r.ev].after)
        IN  /\ r.written \cup r.failed =
                  {affected[i].electionId : i \in 1..Len(affected)}
            /\ r.written \cap r.failed = {}
            /\ \A e \in r.failed :
                  delivered[r.ev] = 1 => lastWrite[e] = NoWrite

\* One write affected two elections; the transaction of the first one was
\* rejected and the second one's committed.
C16_Witness ==
    \E r \in done :
        LET affected == Affected(events[r.ev].before, events[r.ev].after)
        IN  /\ Len(affected) = 2
            /\ r.failed = {affected[1].electionId}
            /\ r.written = {affected[2].electionId}
            /\ lastWrite[affected[2].electionId].n = r.n
            /\ delivered[r.ev] = 1

\* C17. getElectionResults returns a record, zero-valued (totalVotes 0, no
\* candidate counts) when the election has no Result record, and the call
\* creates or modifies no stored record.
C17_ReaderOnlyReads ==
    [][returned'.n # returned.n =>
          /\ result' = result
          /\ \A e \in Elections :
                ~result[e].exists =>
                    /\ returned'.value.totalVotes = 0
                    /\ returned'.value.candidates = <<>>]_vars

SetOf(list) == {list[i] : i \in 1..Len(list)}

\* Election e differs between the images of event ev: another candidateId,
\* or another set of dislikes.
Differs(ev, e) ==
    \/ CandidateOf(ElectionsOf(ev.before), e)
          # CandidateOf(ElectionsOf(ev.after), e)
    \/ SetOf(DislikesOf(ElectionsOf(ev.before), e))
          # SetOf(DislikesOf(ElectionsOf(ev.after), e))

\* C19. aggregateVotes opens a transaction on the Result of an election if
\* and only if the election's candidateId or its set of dislikes differs
\* between the before- and the after-image: a running invocation reads only
\* such an election, a returned invocation has had a transaction for each of
\* them, and an election that differs in no delivered event holds no write
\* (its record, lastUpdated included, is the one it had).
C19_AffectedIffDiffers ==
    /\ \A inv \in invs : Differs(events[inv.ev], ElectionOf(inv))
    /\ \A r \in done :
          r.written \cup r.failed =
              {e \in AllElections : Differs(events[r.ev], e)}
    /\ \A e \in AllElections :
          (\A k \in 1..Len(events) : ~Differs(events[k], e)) =>
              /\ lastWrite[e] = NoWrite
              /\ result[e] \in HandlerResults

\* A vote was submitted again for the same candidate: the write changed
\* updatedAt only, and the invocation it triggered returned without a
\* transaction.
C19_Witness ==
    \E r \in done :
        LET ev == events[r.ev]
        IN  /\ ev.call.op = "submitVote"
            /\ ev.before.exists
            /\ ev.before # ev.after
            /\ CandidateOf(ElectionsOf(ev.before), ev.call.electionId)
                  = ev.call.candidateId
            /\ r.written = {}
            /\ r.failed = {}
            /\ \A e \in AllElections : lastWrite[e] = NoWrite

\* p tenths of a percent is n / d * 100 rounded to one decimal, halves up.
IsRounded(p, n, d) ==
    /\ 2 * d * p <= 2000 * n + d
    /\ 2000 * n + d < 2 * d * (p + 1)

\* C20. In every Result record written by aggregateVotes each candidate's
\* percentage is count / totalVotes of that record, in percent rounded to one
\* decimal (0 when totalVotes is 0), and each dislikePercentage is
\* dislikeCount / totalDislikeMarks of that record, rounded the same way.
C20_Percentages ==
    \A e \in AllElections :
        result[e].exists =>
            \A c \in DOMAIN result[e].candidates :
                LET entry == result[e].candidates[c]
                IN  /\ IF result[e].totalVotes = 0
                       THEN entry.percentage = 0
                       ELSE IsRounded(entry.percentage, entry.count,
                                      result[e].totalVotes)
                    /\ "dislikePercentage" \in DOMAIN entry =>
                          IF result[e].totalDislikeMarks = 0
                          THEN entry.dislikePercentage = 0
                          ELSE IsRounded(entry.dislikePercentage,
                                         entry.dislikeCount,
                                         result[e].totalDislikeMarks)

\* The third vote of an election was aggregated, the votes being split
\* 1/1/1: each candidate has 33.3 percent.
C20_Witness ==
    \E e \in AllElections :
        /\ lastWrite[e].by = "aggregateVotes"
        /\ result[e].totalVotes = 3
        /\ DOMAIN result[e].candidates = {"A", "B", "C"}
        /\ \A c \in DOMAIN result[e].candidates :
              /\ result[e].candidates[c].count = 1
              /\ result[e].candidates[c].percentage = 333

\* C21. Every percentage and dislikePercentage stored in a Result record
\* lies between 0 and 100 (0 and 1000 tenths of a percent), whatever the
\* sequence and the delivery order of the trigger events.
C21_PercentageRange ==
    \A e \in Elections :
        \A c \in DOMAIN result[e].candidates :
            LET entry == result[e].candidates[c]
            IN  /\ entry.percentage >= 0
                /\ entry.percentage <= 1000
                /\ "dislikePercentage" \in DOMAIN entry =>
                      /\ entry.dislikePercentage >= 0
                      /\ entry.dislikePercentage <= 1000

\* The write applied last to election e is the change of event k.
AppliedLast(k, e) ==
    /\ lastWrite[e].by = "aggregateVotes"
    /\ lastWrite[e].change =
          Change(ElectionsOf(events[k].before), ElectionsOf(events[k].after), e)

\* C22. cancelVote leaves the dislikes of the election as they were: an
\* entry with dislikes is kept with candidateId absent, the same dislikes and
\* its createdAt; an entry without dislikes is deleted; without an entry the
\* elections map is written as it was read. The aggregation of a
\* cancellation changes no dislikeCount and not totalDislikeMarks.
C22_CancelKeepsDislikes ==
    \A k \in 1..Len(events) :
        LET ev == events[k]
            e == ev.call.electionId
            before == ElectionsOf(ev.before)
            after == ElectionsOf(ev.after)
        IN  ev.call.op = "cancelVote" =>
              /\ DislikesOf(after, e) = DislikesOf(before, e)
              /\ CandidateOf(after, e) = None
              /\ IF e \notin DOMAIN before THEN after = before
                 ELSE IF before[e].dislikedCandidates # <<>>
                 THEN /\ e \in DOMAIN after
                      /\ after[e].createdAt = before[e].createdAt
                 ELSE e \notin DOMAIN after
              /\ AppliedLast(k, e) =>
                    /\ result[e].totalDislikeMarks =
                          lastWrite[e].data.totalDislikeMarks
                    /\ \A c \in Candidates :
                          DislikeCountOf(e, c) =
                              Get0(candidateDislikeCounts(lastWrite[e].data), c)

\* A user with a vote and a dislike mark cancelled the vote; the entry kept
\* the mark, and the cancellation was aggregated on a record counting it.
C22_Witness ==
    \E k \in 1..Len(events) :
        LET e == events[k].call.electionId
        IN  /\ events[k].call.op = "cancelVote"
            /\ CandidateOf(ElectionsOf(events[k].before), e) # None
            /\ DislikesOf(ElectionsOf(events[k].after), e) # <<>>
            /\ AppliedLast(k, e)
            /\ result[e].totalDislikeMarks >= 1
            /\ result[e].totalVotes = lastWrite[e].data.totalVotes - 1

TogglesOwnPick(call) ==
    /\ call.op = "toggleDislike"
    /\ call.version = voteVersion[call.uid]
    /\ CandidateOf(ElectionsOf(votes[call.uid]), call.electionId)
          = call.candidateId

\* C24. toggleDislike on the candidate the user has voted for is a no-op:
\* the step that ends the call writes no votes document, fires no trigger
\* and changes no Result record.
C24_OwnPickNoOp ==
    [][\A call \in calls :
          (TogglesOwnPick(call) /\ call \notin calls') =>
              /\ votes' = votes
              /\ voteVersion' = voteVersion
              /\ events' = events
              /\ delivered' = delivered
              /\ result' = result]_vars

\* A toggleDislike on the user's own pick has ended normally, and the
\* document is the one stored before.
C24_Witness ==
    /\ ended.op = "toggleDislike"
    /\ ended.status = "ok"
    /\ ended.storedBefore.exists
    /\ \E e \in Elections :
          CandidateOf(ElectionsOf(ended.storedBefore), e) = ended.candidateId
    /\ ended.storedAfter = ended.storedBefore
    /\ votes[ended.uid] = ended.storedBefore
    /\ events = <<>>

\* The call read the stored document, which has no entry for the election.
TogglesWithoutEntry(call) ==
    /\ call.op = "toggleDislike"
    /\ call.version = voteVersion[call.uid]
    /\ call.electionId \notin DOMAIN ElectionsOf(votes[call.uid])

\* C25. toggleDislike of a user who has no entry (or no votes document) for
\* the election succeeds: the step that ends the call stores the entry with
\* candidateId absent, dislikedCandidates = <<candidate>> and createdAt = now,
\* and the write is handed to the trigger.
C25_FirstDislikeStored ==
    [][\A call \in calls :
          (TogglesWithoutEntry(call) /\ call \notin calls') =>
              /\ call.electionId \in DOMAIN ElectionsOf(votes'[call.uid])
              /\ votes'[call.uid].elections[call.electionId] =
                    [candidateId |-> None,
                     dislikedCandidates |-> <<call.candidateId>>,
                     createdAt |-> call.now, updatedAt |-> call.now]
              /\ Len(events') = Len(events) + 1]_vars

\* C26. Recovery after a failed aggregation: a user wrote twice, the
\* transaction of the first write was rejected and skipped, and the second
\* write has been aggregated; every event was delivered once and every
\* invocation has returned. Then totalVotes and the counts of the election
\* equal what the stored votes documents hold.
C26_Recovery ==
    \A e \in Elections :
        ( /\ Quiescent
          /\ ExactlyOnce
          /\ Len(events) = 2
          /\ events[1].uid = events[2].uid
          /\ \E r \in done : r.ev = 1 /\ e \in r.failed
          /\ \E r \in done : r.ev = 2 /\ e \in r.written )
        => VotesTallied(e)

\* C27. When a vote change or a cancellation takes the last vote from a
\* candidate who is not in the roster read, the record written has no entry
\* for that candidate.
C27_RemovedCandidateDropped ==
    \A e \in AllElections :
        LET w == lastWrite[e]
            b == w.change.beforeCandidate
        IN  ( /\ w.by = "aggregateVotes"
              /\ b # None
              /\ b # w.change.afterCandidate
              /\ Get0(candidatesCounts(w.data), b) = 1
              /\ w.rosterOK
              /\ b \notin w.rosterIds )
            => b \notin DOMAIN result[e].candidates

\* C28. Degraded zero-fill: a transaction whose roster read failed commits;
\* the record written has the totals and, for every candidate id it holds,
\* the entry that a successful roster read would have given; it holds every
\* id of the record read, and lacks only zero entries of roster candidates
\* that neither the record read nor the change names.
C28_DegradedZeroFill ==
    \A e \in AllElections :
        LET w == lastWrite[e]
            full == Aggregate(w.data, w.change, TRUE, roster[e])
            missing == (DOMAIN full.candidates) \ (DOMAIN result[e].candidates)
        IN  (w.by = "aggregateVotes" /\ ~w.rosterOK) =>
              /\ result[e].exists
              /\ result[e].totalVotes = full.totalVotes
              /\ result[e].totalDislikeMarks = full.totalDislikeMarks
              /\ DOMAIN result[e].candidates \subseteq DOMAIN full.candidates
              /\ DOMAIN w.data.candidates \subseteq DOMAIN result[e].candidates
              /\ \A c \in DOMAIN result[e].candidates :
                    result[e].candidates[c] = full.candidates[c]
              /\ \A c \in missing :
                    /\ c \in roster[e]
                    /\ full.candidates[c] = [count |-> 0, percentage |-> 0]

\* The first vote of an election was aggregated while the roster read
\* failed: the record holds the vote and lacks the other roster candidate.
C28_Witness ==
    \E e \in AllElections :
        /\ lastWrite[e].by = "aggregateVotes"
        /\ ~lastWrite[e].rosterOK
        /\ ~lastWrite[e].data.exists
        /\ result[e].totalVotes = 1
        /\ \E c \in roster[e] : c \notin DOMAIN result[e].candidates

\* Event k of the log changes the vote or the dislike marks of election e.
Touches(k, e) ==
    \E i \in 1..Len(Affected(events[k].before, events[k].after)) :
        Affected(events[k].before, events[k].after)[i].electionId = e

\* The log holds two successive writes of one user, both changing election
\* e; each was delivered once and both invocations have returned.
TwoWritesAggregated(e) ==
    /\ Quiescent
    /\ ExactlyOnce
    /\ Len(events) = 2
    /\ events[1].uid = events[2].uid
    /\ Touches(1, e) /\ Touches(2, e)

\* C29. Order independence: when the diffs of two successive writes of one
\* user have both been processed, in either order, totalVotes and the
\* per-candidate counts are the ones that processing them in the order of
\* the writes gives, which are the tally of the stored votes documents.
C29_OrderIndependence ==
    \A e \in Elections : TwoWritesAggregated(e) => VotesTallied(e)

\* The log holds two writes of toggleDislike by one user with the same
\* election and candidate, the candidate not being the user's vote; each
\* event was delivered once and both invocations have returned.
ToggledTwice(u, e, c) ==
    /\ Quiescent
    /\ ExactlyOnce
    /\ Len(events) = 2
    /\ \A k \in 1..Len(events) :
          /\ events[k].uid = u
          /\ events[k].call.op = "toggleDislike"
          /\ events[k].call.electionId = e
          /\ events[k].call.candidateId = c
    /\ CandidateOf(ElectionsOf(events[1].before), e) # c

\* C30. Toggle involution: after two toggleDislike calls with the same user,
\* election and candidate, both writes aggregated, the user's marks are the
\* set they were before the first call and the candidateId is unchanged;
\* totalDislikeMarks, every dislikeCount, totalVotes and every count are
\* what they were before the first call, the tally of the stored documents.
C30_ToggleInvolution ==
    \A u \in Users, e \in Elections, c \in Candidates :
        ToggledTwice(u, e, c) =>
            /\ SetOf(Marks(u, e)) =
                  SetOf(DislikesOf(ElectionsOf(events[1].before), e))
            /\ Choice(u, e) = CandidateOf(ElectionsOf(events[1].before), e)
            /\ DislikesTallied(e)
            /\ VotesTallied(e)
====
